---- MODULE Spec2Model ----
(***************************************************************************)
(* Market-data storage in two backends: a relational store (sqlite_storage *)
(* .py) and a ticker-partitioned columnar store (parquet_storage.py), both *)
(* loaded from the same two CSV files through data_loader.py, and the four *)
(* queries each backend answers.                                           *)
(*                                                                         *)
(* Representation.  A datetime is the integer number of minutes since the  *)
(* epoch.  A timestamp text ('YYYY-MM-DD HH:MM:SS', or the date-only       *)
(* 'YYYY-MM-DD' the callers pass as query bounds) is the sequence of its   *)
(* zero-padded fields, <<day, minute>> or <<day>>, compared as text is:    *)
(* field by field, a proper prefix being the smaller.  Prices are whole    *)
(* numbers, percentages are kept in hundredths (10.00% is 1000).  The      *)
(* high/low columns are carried by every row and read by no query; they    *)
(* are left out.                                                           *)
(***************************************************************************)
EXTENDS Integers, Sequences, FiniteSets, TLC

\* ------------------------------------------------------------------ bounds
MaxBars == 2
MaxDay == 2
MaxMinute == 1
MaxTopN == 2
MaxLimit == 2
MaxCalls == 1
MaxReads == 2
MaxLoaderRows == 2
MaxReloads == 2
MaxWindow == 2
MaxDuration == 1
MaxRollingBars == 3
MaxRollingMinute == 1

\* ----------------------------------------------------------- value domains
MinutesPerDay == 24 * 60

\* the ticker_id of the row test_foreign_key_constraint inserts
OrphanTickerId == 999

Symbols == {"AAPL", "TSLA"}

\* collation order of the ticker symbols (text comparison of the names)
SymbolRank(s) == CASE s = "AAPL" -> 1 [] s = "TSLA" -> 2

Datetimes == {d * MinutesPerDay + m : d \in 1..MaxDay, m \in 0..MaxMinute}

Quotes ==
  { [open |-> 100, close |-> 110, volume |-> 10],
    [open |-> 0,   close |-> 120, volume |-> 15] }

TiePolicies == {"stable", "reversed"}

Min(a, b) == IF a <= b THEN a ELSE b

\* ------------------------------------------------------- timestamps as text
\* datetime.isoformat(" "): the text pandas stores in the TEXT column
FormatTimestamp(t) == <<t \div MinutesPerDay, t % MinutesPerDay>>

\* pd.to_datetime(text): a date-only text is midnight of that date
ToDatetime(text) ==
  IF Len(text) = 1 THEN text[1] * MinutesPerDay
  ELSE text[1] * MinutesPerDay + text[2]

\* SQLite DATE(text): the date-only text
SqlDate(text) == <<text[1]>>

\* pandas .dt.date: the calendar date, as the day number
DateOf(t) == t \div MinutesPerDay

\* text comparison as SQLite's BINARY collation does it
TextLess(a, b) ==
  \E i \in 1..(Min(Len(a), Len(b)) + 1) :
    /\ \A j \in 1..(i - 1) : a[j] = b[j]
    /\ \/ i > Len(a) /\ i <= Len(b)
       \/ i <= Len(a) /\ i <= Len(b) /\ a[i] < b[i]

TextLeq(a, b) == a = b \/ TextLess(a, b)

\* x BETWEEN lo AND hi on TEXT values
TextBetween(x, lo, hi) == TextLeq(lo, x) /\ TextLeq(x, hi)

\* ------------------------------------------------------------ input files
CsvRows ==
  { [timestamp |-> FormatTimestamp(t), ticker |-> s,
     open |-> q.open, close |-> q.close, volume |-> q.volume] :
    t \in Datetimes, s \in Symbols, q \in Quotes }

CsvFiles == UNION { [1..n -> CsvRows] : n \in 1..MaxBars }

RefRows == <<[ticker_id |-> 1, symbol |-> "AAPL"], [ticker_id |-> 2, symbol |-> "TSLA"]>>

RefFiles == { <<RefRows[1]>>, <<RefRows[2]>>, RefRows }

\* ------------------------------------------------------------- sequences
Range(seq) == {seq[i] : i \in 1..Len(seq)}

RECURSIVE Flatten(_)
Flatten(seqs) ==
  IF seqs = <<>> THEN <<>> ELSE Head(seqs) \o Flatten(Tail(seqs))

Take(seq, n) == SubSeq(seq, 1, Min(n, Len(seq)))

RECURSIVE SumOf(_)
SumOf(seq) == IF seq = <<>> THEN 0 ELSE Head(seq) + SumOf(Tail(seq))

\* the elements of a finite set of integers in ascending order
RECURSIVE Ascending(_)
Ascending(S) ==
  IF S = {} THEN <<>>
  ELSE LET m == CHOOSE x \in S : \A y \in S : x <= y
       IN <<m>> \o Ascending(S \ {m})

\* the symbols of a set in collation order
SymbolsAscending(S) ==
  LET ranks == Ascending({SymbolRank(s) : s \in S})
  IN [i \in 1..Len(ranks) |-> CHOOSE s \in S : SymbolRank(s) = ranks[i]]

\* A sort that says nothing about rows it does not order.  less[i, j] tells
\* whether row i sorts before row j; the result has the rows in ascending
\* order, tied rows in input order ("stable") or in reverse input order
\* ("reversed"), as the build's sort routine leaves them.
SortRows(seq, less, policy) ==
  LET n == Len(seq)
      Before(j, i) ==
        \/ less[j, i]
        \/ /\ ~less[i, j]
           /\ IF policy = "stable" THEN j < i ELSE j > i
      Pos(i) == Cardinality({j \in 1..n : Before(j, i)}) + 1
  IN [k \in 1..n |-> seq[CHOOSE i \in 1..n : Pos(i) = k]]

\* the comparison of the rows of seq by Less, as SortRows takes it
Comparing(seq, Less(_, _)) == [i \in 1..Len(seq), j \in 1..Len(seq) |-> Less(seq[i], seq[j])]

\* ---------------------------------------------------------------- numbers
\* CAST(x AS INTEGER) and astype(int): truncation toward zero of num/den
Truncate(num, den) ==
  IF num >= 0 THEN num \div den ELSE -((-num) \div den)

\* SQLite ROUND(): num/den (den # 0) to the nearest integer, halves away from zero
RoundHalfAway(num, den) ==
  LET n == IF den < 0 THEN -num ELSE num
      d == IF den < 0 THEN -den ELSE den
  IN IF n >= 0 THEN (2 * n + d) \div (2 * d)
     ELSE -((2 * (-n) + d) \div (2 * d))

\* Python/numpy round(): num/den (den > 0) to the nearest integer, halves to even
RoundHalfEven(num, den) ==
  LET fl == num \div den
      twice == 2 * (num - fl * den)
  IN IF twice < den THEN fl
     ELSE IF twice > den THEN fl + 1
     ELSE IF fl % 2 = 0 THEN fl ELSE fl + 1

RECURSIVE GCD(_, _)
GCD(a, b) == IF b = 0 THEN a ELSE GCD(b, a % b)

Abs(a) == IF a < 0 THEN -a ELSE a

\* the exact value num/den (den > 0) of a float result, in lowest terms
Fraction(num, den) ==
  [null |-> FALSE, inf |-> FALSE,
   num |-> num \div GCD(Abs(num), den), den |-> den \div GCD(Abs(num), den)]

\* NaN, the missing value of a float column, and the float inf
NaN == [null |-> TRUE, inf |-> FALSE, num |-> 0, den |-> 1]
Infinity == [null |-> FALSE, inf |-> TRUE, num |-> 0, den |-> 1]

\* arithmetic of finite float values, kept exact
FloatAdd(x, y) == Fraction(x.num * y.den + y.num * x.den, x.den * y.den)
FloatSub(x, y) == Fraction(x.num * y.den - y.num * x.den, x.den * y.den)
FloatMul(x, y) == Fraction(x.num * y.num, x.den * y.den)
FloatDiv(x, n) == Fraction(x.num, x.den * n)

RECURSIVE FloatSum(_)
FloatSum(xs) == IF xs = <<>> THEN Fraction(0, 1) ELSE FloatAdd(Head(xs), FloatSum(Tail(xs)))

Max(a, b) == IF a >= b THEN a ELSE b

VARIABLES
  csvFile,      \* market_data_multi.csv: the rows of the price file
  refFile,      \* tickers.csv: the rows of the reference ticker file
  build,        \* how this build's sort routines leave tied rows
  pc,           \* the next step of the load sequence
  foreignKeys,  \* PRAGMA foreign_keys of the connection
  schema,       \* who created each table: "none", "ddl" (init_db) or "pandas" (to_sql)
  tickers,      \* rows of table tickers
  prices,       \* rows of table prices
  parquet,      \* the partitioned dataset directory
  loaded,       \* outcome of each backend's bulk load
  calls,        \* number of calls the client has still to issue
  result,       \* what the last operation returned or reported
  dbFile,       \* whether the file market_data.db exists
  connections   \* the functions whose sqlite3 connection is open

vars == <<csvFile, refFile, build, pc, foreignKeys, schema, tickers, prices,
          parquet, loaded, calls, result, dbFile, connections>>

NoResult ==
  [backend |-> "none", op |-> "none", args |-> <<>>, err |-> "none",
   rows |-> <<>>, dropped |-> 0]

Returned(backend, op, args, out) ==
  [backend |-> backend, op |-> op, args |-> args, err |-> out.err,
   rows |-> out.rows, dropped |-> 0]

Reported(backend, op, err, dropped) ==
  [backend |-> backend, op |-> op, args |-> <<>>, err |-> err,
   rows |-> <<>>, dropped |-> dropped]

Ok(rows) == [err |-> "none", rows |-> rows]
Raise(err) == [err |-> err, rows |-> <<>>]

\* a path with no directory at it.  A directory holds one partition per
\* ticker=<SYMBOL> subdirectory; corrupt names those whose files cannot be read
NoDirectory == [exists |-> FALSE, parts |-> [s \in {} |-> <<>>], corrupt |-> {}]

Init ==
  /\ csvFile \in CsvFiles
  /\ refFile \in RefFiles
  /\ build \in [orderBy : TiePolicies, quicksort : TiePolicies]
  /\ pc = "connect"
  /\ foreignKeys = FALSE
  /\ schema = [tickers |-> "none", prices |-> "none"]
  /\ tickers = <<>>
  /\ prices = <<>>
  /\ parquet = NoDirectory
  /\ loaded = [sqlite |-> "pending", parquet |-> "pending"]
  /\ calls = MaxCalls
  /\ result = NoResult
  /\ dbFile = FALSE
  /\ connections = {}

\* ------------------------------------------------------------ data_loader
\* load_and_validate_data: the frame with parsed timestamps, or ValueError
\* when a ticker of the reference file has no row in the price file
LoadAndValidate(csv, ref) ==
  LET df == [i \in 1..Len(csv) |->
               [timestamp |-> ToDatetime(csv[i].timestamp), ticker |-> csv[i].ticker,
                open |-> csv[i].open, close |-> csv[i].close, volume |-> csv[i].volume]]
      expected_tickers == {ref[i].symbol : i \in 1..Len(ref)}
      actual_tickers == {csv[i].ticker : i \in 1..Len(csv)}
      missing_tickers == expected_tickers \ actual_tickers
  IN IF missing_tickers # {} THEN Raise("ValueError") ELSE Ok(df)

\* ------------------------------------------------- sqlite_storage: loading
\* main, sqlite3.connect(DB_NAME): the file is created when it is missing
connect ==
  /\ pc = "connect"
  /\ dbFile' = TRUE
  /\ connections' = connections \cup {"main"}
  /\ pc' = "init_db"
  /\ result' = Reported("sqlite", "connect", "none", 0)
  /\ UNCHANGED <<csvFile, refFile, build, foreignKeys, schema, tickers, prices,
                 parquet, loaded, calls>>

\* main, the finally clause: conn.close(), whether import_prices returned or raised
close ==
  /\ pc = "close"
  /\ connections' = connections \ {"main"}
  /\ pc' = "init_parquet"
  /\ UNCHANGED <<csvFile, refFile, build, foreignKeys, schema, tickers, prices,
                 parquet, loaded, calls, result, dbFile>>

\* init_db: PRAGMA foreign_keys = ON, then CREATE TABLE IF NOT EXISTS twice
init_db ==
  /\ pc = "init_db"
  /\ foreignKeys' = TRUE
  /\ schema' = [tickers |-> IF schema.tickers = "none" THEN "ddl" ELSE schema.tickers,
                prices  |-> IF schema.prices = "none" THEN "ddl" ELSE schema.prices]
  /\ pc' = "import_tickers"
  /\ result' = Reported("sqlite", "init_db", "none", 0)
  /\ UNCHANGED <<csvFile, refFile, build, tickers, prices, parquet, loaded, calls,
                 dbFile, connections>>

\* DROP TABLE tickers under foreign_keys = ON deletes the rows first, and
\* fails when a row of a prices table that still declares the key refers to one
DropTickersFails ==
  /\ foreignKeys
  /\ schema.prices = "ddl"
  /\ \E i \in 1..Len(prices), k \in 1..Len(tickers) :
       prices[i].ticker_id = tickers[k].ticker_id

\* import_tickers: to_sql(if_exists='replace') drops the table and creates
\* it again from the frame, with the frame's columns and no constraint
import_tickers ==
  /\ pc = "import_tickers"
  /\ IF DropTickersFails
     THEN /\ UNCHANGED <<tickers, schema>>
          /\ result' = Reported("sqlite", "import_tickers", "caught", 0)
     ELSE /\ tickers' = refFile
          /\ schema' = [schema EXCEPT !.tickers = "pandas"]
          /\ result' = Reported("sqlite", "import_tickers", "none", 0)
  /\ pc' = "import_prices"
  /\ UNCHANGED <<csvFile, refFile, build, foreignKeys, prices, parquet, loaded, calls,
                 dbFile, connections>>

\* get_symbol_map: dict(zip(symbol, ticker_id)), the last row of a symbol wins
get_symbol_map ==
  [s \in {tickers[k].symbol : k \in 1..Len(tickers)} |->
     LET last == CHOOSE k \in 1..Len(tickers) :
                   /\ tickers[k].symbol = s
                   /\ \A j \in (k + 1)..Len(tickers) : tickers[j].symbol # s
     IN tickers[last].ticker_id]

\* the rows import_prices keeps: those whose ticker maps to a ticker_id
PricesToDb(clean_df, symbol_to_id) ==
  LET kept == SelectSeq(clean_df, LAMBDA r : r.ticker \in DOMAIN symbol_to_id)
  IN [i \in 1..Len(kept) |->
        [timestamp |-> FormatTimestamp(kept[i].timestamp),
         ticker_id |-> symbol_to_id[kept[i].ticker],
         open |-> kept[i].open, close |-> kept[i].close, volume |-> kept[i].volume]]

\* import_prices: get_symbol_map fails on a database without table tickers;
\* it returns early without tickers, lets the loader's ValueError
\* escape, otherwise drops the unmapped rows and replaces table prices
import_prices ==
  /\ pc = "import_prices"
  /\ LET symbol_to_id == get_symbol_map
         clean == LoadAndValidate(csvFile, refFile)
     IN IF schema.tickers = "none"
        THEN /\ UNCHANGED <<prices, schema>>
             /\ loaded' = [loaded EXCEPT !.sqlite = "failed"]
             /\ result' = Reported("sqlite", "import_prices", "DatabaseError", 0)
        ELSE IF DOMAIN symbol_to_id = {}
        THEN /\ UNCHANGED <<prices, schema>>
             /\ loaded' = [loaded EXCEPT !.sqlite = "failed"]
             /\ result' = Reported("sqlite", "import_prices", "none", 0)
        ELSE IF clean.err # "none"
        THEN /\ UNCHANGED <<prices, schema>>
             /\ loaded' = [loaded EXCEPT !.sqlite = "failed"]
             /\ result' = Reported("sqlite", "import_prices", clean.err, 0)
        ELSE LET prices_to_db == PricesToDb(clean.rows, symbol_to_id)
             IN /\ prices' = prices_to_db
                /\ schema' = [schema EXCEPT !.prices = "pandas"]
                /\ loaded' = [loaded EXCEPT !.sqlite = "ok"]
                /\ result' = Reported("sqlite", "import_prices", "none",
                                      Len(clean.rows) - Len(prices_to_db))
  /\ pc' = "close"
  /\ UNCHANGED <<csvFile, refFile, build, foreignKeys, tickers, parquet, calls,
                 dbFile, connections>>

\* ------------------------------------------------ parquet_storage: loading
\* sort_values(['ticker', 'timestamp']) and write_to_dataset(partition_cols=
\* ['ticker']): one directory per ticker of the frame, its rows by timestamp,
\* rows of one timestamp in input order (the two-key sort is a stable one)
Partitions(clean_df) ==
  [s \in {clean_df[i].ticker : i \in 1..Len(clean_df)} |->
     LET own == SelectSeq(clean_df, LAMBDA r : r.ticker = s)
         rows == [i \in 1..Len(own) |->
                    [timestamp |-> own[i].timestamp, open |-> own[i].open,
                     close |-> own[i].close, volume |-> own[i].volume]]
         Less(a, b) == a.timestamp < b.timestamp
     IN SortRows(rows, Comparing(rows, Less), "stable")]

\* the dataset init_parquet writes from a validated frame
WriteDataset(clean_df) ==
  [exists |-> TRUE, parts |-> Partitions(clean_df), corrupt |-> {}]

\* init_parquet as if the test of line 19 were missing: the dataset is built
\* from the input files whether the directory exists or not
init_parquet_rebuilding(parquet_dir, csv_path, tickers_path) ==
  LET clean == LoadAndValidate(csv_path, tickers_path)
  IN IF clean.err # "none"
     THEN [dir |-> parquet_dir, status |-> "failed", err |-> clean.err,
           message |-> "none", read |-> {"prices", "tickers"}]
     ELSE [dir |-> WriteDataset(clean.rows), status |-> "ok", err |-> "none",
           message |-> "created", read |-> {"prices", "tickers"}]

\* init_parquet(parquet_dir, csv_path, tickers_path): what it leaves at
\* parquet_dir, how the load ended, the error that escapes, the message it
\* prints and the input files it read.  It returns at once when the
\* directory exists; otherwise the loader's ValueError escapes or the
\* partitioned dataset is written.
init_parquet_at(parquet_dir, csv_path, tickers_path) ==
  IF parquet_dir.exists
  THEN [dir |-> parquet_dir, status |-> "kept", err |-> "none",
        message |-> "already exists", read |-> {}]
  ELSE LET clean == LoadAndValidate(csv_path, tickers_path)
       IN IF clean.err # "none"
          THEN [dir |-> parquet_dir, status |-> "failed", err |-> clean.err,
                message |-> "none", read |-> {"prices", "tickers"}]
          ELSE [dir |-> WriteDataset(clean.rows), status |-> "ok", err |-> "none",
                message |-> "created", read |-> {"prices", "tickers"}]

\* a call of init_parquet on the input files: the first one of the run, or a
\* later one on whatever the first one left
init_parquet ==
  /\ pc \in {"init_parquet", "ready"}
  /\ LET out == init_parquet_at(parquet, csvFile, refFile)
     IN /\ parquet' = out.dir
        /\ loaded' = IF out.status = "kept" THEN loaded
                     ELSE [loaded EXCEPT !.parquet = out.status]
        /\ result' = [Reported("parquet", "init_parquet", out.err, 0)
                        EXCEPT !.args = <<out.message>>]
  /\ pc' = "ready"
  /\ UNCHANGED <<csvFile, refFile, build, foreignKeys, schema, tickers, prices, calls,
                 dbFile, connections>>

\* ------------------------------------------------ sqlite_storage: queries
\* a query on a table that does not exist fails in pd.read_sql
NoSuchTable == schema.tickers = "none" \/ schema.prices = "none"

\* the least and the greatest of a non-empty set of timestamp texts
MinText(S) == CHOOSE x \in S : \A y \in S : TextLeq(x, y)
MaxText(S) == CHOOSE x \in S : \A y \in S : TextLeq(y, x)

\* LIMIT n: a negative n is no limit
SqlLimit(rows, n) == IF n < 0 THEN rows ELSE Take(rows, n)

\* get_ticker_data: prices JOIN tickers, WHERE symbol = ? AND timestamp
\* BETWEEN ? AND ? (a comparison of TEXT values), ORDER BY timestamp ASC
get_ticker_data(ticker, start_date, end_date) ==
  LET joined ==
        Flatten([i \in 1..Len(prices) |->
          Flatten([k \in 1..Len(tickers) |->
            IF /\ prices[i].ticker_id = tickers[k].ticker_id
               /\ tickers[k].symbol = ticker
               /\ TextBetween(prices[i].timestamp, start_date, end_date)
            THEN <<[symbol |-> tickers[k].symbol, timestamp |-> prices[i].timestamp,
                    open |-> prices[i].open, close |-> prices[i].close,
                    volume |-> prices[i].volume]>>
            ELSE <<>>])])
      Less(a, b) == TextLess(a.timestamp, b.timestamp)
  IN IF NoSuchTable THEN Raise("DatabaseError")
     ELSE Ok(SortRows(joined, Comparing(joined, Less), build.orderBy))

\* get_avg_daily_volume: GROUP BY symbol, CAST(AVG(volume) AS INTEGER),
\* ORDER BY avg_daily_volume DESC and nothing else
get_avg_daily_volume ==
  LET joined ==
        Flatten([i \in 1..Len(prices) |->
          Flatten([k \in 1..Len(tickers) |->
            IF prices[i].ticker_id = tickers[k].ticker_id
            THEN <<[symbol |-> tickers[k].symbol, volume |-> prices[i].volume]>>
            ELSE <<>>])])
      symbols == SymbolsAscending({joined[i].symbol : i \in 1..Len(joined)})
      grouped ==
        [g \in 1..Len(symbols) |->
           LET own == SelectSeq(joined, LAMBDA r : r.symbol = symbols[g])
           IN [symbol |-> symbols[g],
               avg_daily_volume |->
                 Truncate(SumOf([i \in 1..Len(own) |-> own[i].volume]), Len(own))]]
      Less(a, b) == a.avg_daily_volume > b.avg_daily_volume
  IN IF NoSuchTable THEN Raise("DatabaseError")
     ELSE Ok(SortRows(grouped, Comparing(grouped, Less), build.orderBy))

\* the rows of prices of one ticker_id at one timestamp, in table order
PricesAt(ticker_id, timestamp) ==
  SelectSeq(prices, LAMBDA p : p.ticker_id = ticker_id /\ p.timestamp = timestamp)

\* ROUND(((end_price - start_price) / start_price) * 100, 2) on REAL values:
\* a division by zero is NULL
SqlReturnPct(symbol, start_price, end_price) ==
  IF start_price = 0
  THEN [symbol |-> symbol, return_pct |-> 0, null |-> TRUE]
  ELSE [symbol |-> symbol, null |-> FALSE,
        return_pct |-> RoundHalfAway((end_price - start_price) * 10000, start_price)]

\* ORDER BY return_pct DESC: NULL is the smallest value and comes last
ReturnDesc(a, b) ==
  \/ ~a.null /\ b.null
  \/ ~a.null /\ ~b.null /\ a.return_pct > b.return_pct

\* get_top_tickers_by_return: MIN/MAX timestamp per ticker_id in the period,
\* every prices row at the first timestamp joined with every prices row at
\* the last one, ORDER BY return_pct DESC LIMIT ?
get_top_tickers_by_return(start_date, end_date, top_n) ==
  LET inPeriod == SelectSeq(prices, LAMBDA p : TextBetween(p.timestamp, start_date, end_date))
      first_date(id) ==
        MinText({inPeriod[i].timestamp : i \in {j \in 1..Len(inPeriod) : inPeriod[j].ticker_id = id}})
      last_date(id) ==
        MaxText({inPeriod[i].timestamp : i \in {j \in 1..Len(inPeriod) : inPeriod[j].ticker_id = id}})
      ids == {inPeriod[i].ticker_id : i \in 1..Len(inPeriod)}
      joined ==
        Flatten([k \in 1..Len(tickers) |->
          IF tickers[k].ticker_id \notin ids THEN <<>>
          ELSE LET s == PricesAt(tickers[k].ticker_id, first_date(tickers[k].ticker_id))
                   e == PricesAt(tickers[k].ticker_id, last_date(tickers[k].ticker_id))
               IN Flatten([i \in 1..Len(s) |->
                    [j \in 1..Len(e) |->
                       SqlReturnPct(tickers[k].symbol, s[i].open, e[j].close)]])])
  IN IF NoSuchTable THEN Raise("DatabaseError")
     ELSE Ok(SqlLimit(SortRows(joined, Comparing(joined, ReturnDesc), build.orderBy), top_n))

\* ORDER BY trade_date DESC, symbol ASC
DateDescSymbolAsc(a, b) ==
  \/ TextLess(b.timestamp, a.timestamp)
  \/ a.timestamp = b.timestamp /\ SymbolRank(a.symbol) < SymbolRank(b.symbol)

\* get_daily_trade_summary: MIN/MAX timestamp per (ticker_id, DATE(timestamp)),
\* every prices row at the day's first timestamp joined with every prices row
\* at its last one; LIMIT ? is added only when limit is truthy
get_daily_trade_summary(limit) ==
  LET ids == Ascending({prices[i].ticker_id : i \in 1..Len(prices)})
      dates(id) ==
        Ascending({SqlDate(prices[i].timestamp)[1] :
                     i \in {j \in 1..Len(prices) : prices[j].ticker_id = id}})
      times(id, d) ==
        {prices[i].timestamp :
           i \in {j \in 1..Len(prices) :
                    prices[j].ticker_id = id /\ SqlDate(prices[j].timestamp) = <<d>>}}
      daily_boundaries ==
        Flatten([g \in 1..Len(ids) |->
          [h \in 1..Len(dates(ids[g])) |->
             [ticker_id |-> ids[g], trade_date |-> <<dates(ids[g])[h]>>,
              start_time |-> MinText(times(ids[g], dates(ids[g])[h])),
              end_time |-> MaxText(times(ids[g], dates(ids[g])[h]))]]])
      joined ==
        Flatten([g \in 1..Len(daily_boundaries) |->
          LET db == daily_boundaries[g]
              p_start == PricesAt(db.ticker_id, db.start_time)
              p_end == PricesAt(db.ticker_id, db.end_time)
          IN Flatten([k \in 1..Len(tickers) |->
               IF tickers[k].ticker_id # db.ticker_id THEN <<>>
               ELSE Flatten([i \in 1..Len(p_start) |->
                      [j \in 1..Len(p_end) |->
                         [symbol |-> tickers[k].symbol, timestamp |-> db.trade_date,
                          first_trade_price |-> p_start[i].open,
                          last_trade_price |-> p_end[j].close]]])])])
      ordered == SortRows(joined, Comparing(joined, DateDescSymbolAsc), build.orderBy)
  IN IF NoSuchTable THEN Raise("DatabaseError")
     ELSE IF limit # <<>> /\ limit[1] # 0 THEN Ok(SqlLimit(ordered, limit[1]))
     ELSE Ok(ordered)

\* ----------------------------------------------- parquet_storage: queries
\* the rows of one partition directory, the ticker column filled in
ReadPartition(parquet_path, ticker) ==
  [i \in 1..Len(parquet_path.parts[ticker]) |->
     [ticker |-> ticker, timestamp |-> parquet_path.parts[ticker][i].timestamp,
      open |-> parquet_path.parts[ticker][i].open,
      close |-> parquet_path.parts[ticker][i].close,
      volume |-> parquet_path.parts[ticker][i].volume]]

\* load_parquet: FileNotFoundError without the directory, otherwise every
\* partition, in the order of the directory names; dataset.read() fails on
\* a file it cannot read
load_parquet(parquet_path) ==
  IF ~parquet_path.exists THEN Raise("FileNotFoundError")
  ELSE IF parquet_path.corrupt # {} THEN Raise("ArrowInvalid")
  ELSE LET dirs == SymbolsAscending(DOMAIN parquet_path.parts)
       IN Ok(Flatten([g \in 1..Len(dirs) |-> ReadPartition(parquet_path, dirs[g])]))

\* the mask of the range queries: the bounds are parsed to datetimes
InPeriod(row, start_date, end_date) ==
  /\ row.timestamp >= ToDatetime(start_date)
  /\ row.timestamp <= ToDatetime(end_date)

TimestampAsc(a, b) == a.timestamp < b.timestamp

\* get_ticker_data_parquet: the ticker's partition when its directory
\* exists, otherwise the whole dataset; then the mask on the timestamp
\* alone and sort_values('timestamp')
get_ticker_data_parquet(parquet_path, ticker, start_date, end_date) ==
  LET df == IF parquet_path.exists /\ ticker \in DOMAIN parquet_path.parts
            THEN IF ticker \in parquet_path.corrupt THEN Raise("ArrowInvalid")
                 ELSE Ok(ReadPartition(parquet_path, ticker))
            ELSE load_parquet(parquet_path)
      masked == SelectSeq(df.rows, LAMBDA r : InPeriod(r, start_date, end_date))
  IN IF df.err # "none" THEN df
     ELSE Ok(SortRows(masked, Comparing(masked, TimestampAsc), build.quicksort))

\* get_avg_daily_volume_parquet: groupby('ticker') mean, astype(int),
\* sort_values('avg_daily_volume', ascending=False)
get_avg_daily_volume_parquet(parquet_path) ==
  LET df == load_parquet(parquet_path)
      symbols == SymbolsAscending({df.rows[i].ticker : i \in 1..Len(df.rows)})
      grouped ==
        [g \in 1..Len(symbols) |->
           LET own == SelectSeq(df.rows, LAMBDA r : r.ticker = symbols[g])
           IN [symbol |-> symbols[g],
               avg_daily_volume |->
                 Truncate(SumOf([i \in 1..Len(own) |-> own[i].volume]), Len(own))]]
      Less(a, b) == a.avg_daily_volume > b.avg_daily_volume
  IN IF df.err # "none" THEN df
     ELSE Ok(SortRows(grouped, Comparing(grouped, Less), build.quicksort))

\* the tickers of a frame in order of first appearance (Series.unique)
RECURSIVE Unique(_)
Unique(seq) ==
  IF seq = <<>> THEN <<>>
  ELSE LET init == Unique(SubSeq(seq, 1, Len(seq) - 1))
           last == seq[Len(seq)]
       IN IF last \in Range(init) THEN init ELSE Append(init, last)

\* get_top_tickers_by_return_parquet: per ticker of the period the open of
\* the first and the close of the last row by timestamp, kept only when the
\* open is positive; sort_values('return_pct') fails on a frame built from
\* no result, which has no such column
get_top_tickers_by_return_parquet(parquet_path, start_date, end_date, top_n) ==
  LET df == load_parquet(parquet_path)
      period_df == SelectSeq(df.rows, LAMBDA r : InPeriod(r, start_date, end_date))
      symbols == Unique([i \in 1..Len(period_df) |-> period_df[i].ticker])
      results ==
        Flatten([g \in 1..Len(symbols) |->
          LET own == SelectSeq(period_df, LAMBDA r : r.ticker = symbols[g])
              ticker_data == SortRows(own, Comparing(own, TimestampAsc), build.quicksort)
              start_price == ticker_data[1].open
              end_price == ticker_data[Len(ticker_data)].close
          IN IF start_price > 0
             THEN <<[symbol |-> symbols[g], null |-> FALSE,
                     return_pct |->
                       RoundHalfEven((end_price - start_price) * 10000, start_price)]>>
             ELSE <<>>])
      Less(a, b) == a.return_pct > b.return_pct
  IN IF df.err # "none" THEN df
     ELSE IF results = <<>> THEN Raise("KeyError")
     ELSE Ok(Take(SortRows(results, Comparing(results, Less), build.quicksort), top_n))

\* sort_values(['timestamp', 'symbol'], ascending=[False, True])
DateDescSymbolAscParquet(a, b) ==
  \/ a.timestamp > b.timestamp
  \/ a.timestamp = b.timestamp /\ SymbolRank(a.symbol) < SymbolRank(b.symbol)

\* get_daily_trade_summary_parquet: per (ticker, date) group the open of
\* the first and the close of the last row by timestamp; head(limit) only
\* when limit is truthy; an empty frame has no column to sort on
get_daily_trade_summary_parquet(parquet_path, limit) ==
  LET df == load_parquet(parquet_path)
      symbols == SymbolsAscending({df.rows[i].ticker : i \in 1..Len(df.rows)})
      dates(s) ==
        Ascending({DateOf(df.rows[i].timestamp) :
                     i \in {j \in 1..Len(df.rows) : df.rows[j].ticker = s}})
      results ==
        Flatten([g \in 1..Len(symbols) |->
          [h \in 1..Len(dates(symbols[g])) |->
             LET trade_date == dates(symbols[g])[h]
                 group == SelectSeq(df.rows, LAMBDA r :
                            r.ticker = symbols[g] /\ DateOf(r.timestamp) = trade_date)
                 group_sorted == SortRows(group, Comparing(group, TimestampAsc), build.quicksort)
             IN [symbol |-> symbols[g], timestamp |-> trade_date,
                 first_trade_price |-> group_sorted[1].open,
                 last_trade_price |-> group_sorted[Len(group_sorted)].close]]])
      result_df == SortRows(results, Comparing(results, DateDescSymbolAscParquet), "stable")
  IN IF df.err # "none" THEN df
     ELSE IF results = <<>> THEN Raise("KeyError")
     ELSE IF limit # <<>> /\ limit[1] # 0 THEN Ok(Take(result_df, limit[1]))
     ELSE Ok(result_df)

\* ------------------------------------------------- parquet_storage: tasks
\* the rolling mean with min_periods left at its default, the window size:
\* the positions before the first full window are missing
RollingMeanFullWindows(values, window) ==
  [i \in 1..Len(values) |->
     IF i < window THEN NaN
     ELSE Fraction(SumOf(SubSeq(values, i - window + 1, i)), window)]

\* Series.rolling(window, min_periods=1).mean() on values none of which is
\* missing: at each position the mean of the trailing window, cut short at
\* the start of the series
RollingMean(values, window) ==
  [i \in 1..Len(values) |->
     LET trailing == SubSeq(values, Max(1, i - window + 1), i)
     IN Fraction(SumOf(trailing), Len(trailing))]

\* task1_aapl_rolling_average: the AAPL partition when its directory exists,
\* otherwise the whole dataset filtered on the ticker; sort_values(
\* 'timestamp'), then the rolling mean of close
task1_aapl_rolling_average(parquet_path, window) ==
  LET loaded_df ==
        IF parquet_path.exists /\ "AAPL" \in DOMAIN parquet_path.parts
        THEN IF "AAPL" \in parquet_path.corrupt THEN Raise("ArrowInvalid")
             ELSE Ok(ReadPartition(parquet_path, "AAPL"))
        ELSE LET all == load_parquet(parquet_path)
             IN IF all.err # "none" THEN all
                ELSE Ok(SelectSeq(all.rows, LAMBDA r : r.ticker = "AAPL"))
      df == SortRows(loaded_df.rows, Comparing(loaded_df.rows, TimestampAsc), build.quicksort)
      close_5min_ma == RollingMean([i \in 1..Len(df) |-> df[i].close], window)
  IN IF loaded_df.err # "none" THEN loaded_df
     ELSE Ok([i \in 1..Len(df) |->
                [ticker |-> df[i].ticker, timestamp |-> df[i].timestamp,
                 close |-> df[i].close, close_5min_ma |-> close_5min_ma[i]]])

\* pct_change: close / previous close - 1; a float division by zero is inf,
\* and 0 / 0 is NaN
PctChange(prev, cur) ==
  IF prev = 0 THEN (IF cur = 0 THEN NaN ELSE Infinity)
  ELSE Fraction(cur - prev, prev)

\* the sample variance (ddof = 1) of two or more finite values: the square
\* of the standard deviation std() returns
SampleVariance(xs) ==
  LET n == Len(xs)
      mean == FloatDiv(FloatSum(xs), n)
      squares == [i \in 1..n |-> FloatMul(FloatSub(xs[i], mean), FloatSub(xs[i], mean))]
  IN FloatDiv(FloatSum(squares), n - 1)

\* the rolling deviation with ddof = 0, which a single observation defines
RollingStdPopulation(values, window) ==
  [i \in 1..Len(values) |->
     LET trailing == SubSeq(values, Max(1, i - window + 1), i)
         observed == SelectSeq(trailing, LAMBDA x : ~x.null /\ ~x.inf)
         n == Len(observed)
         mean == FloatDiv(FloatSum(observed), n)
         squares == [k \in 1..n |->
                       FloatMul(FloatSub(observed[k], mean), FloatSub(observed[k], mean))]
     IN IF n < 1 THEN NaN ELSE FloatDiv(FloatSum(squares), n)]

\* Series.rolling(window, min_periods=1).std(): inf is taken as missing, a
\* window is the trailing window rows, and the deviation of fewer than two
\* observations is NaN.  The value kept is the variance.
RollingStd(values, window) ==
  [i \in 1..Len(values) |->
     LET trailing == SubSeq(values, Max(1, i - window + 1), i)
         observed == SelectSeq(trailing, LAMBDA x : ~x.null /\ ~x.inf)
     IN IF Len(observed) < 2 THEN NaN ELSE SampleVariance(observed)]

\* sort_values(['ticker', 'timestamp']): a stable two-key sort
TickerTimestampAsc(a, b) ==
  \/ SymbolRank(a.ticker) < SymbolRank(b.ticker)
  \/ a.ticker = b.ticker /\ a.timestamp < b.timestamp

\* task2 with pct_change and rolling applied to the sorted frame as one
\* series, without the groupby: a window runs on from one ticker into the next
task2_rolling_volatility_ungrouped(parquet_path, window) ==
  LET loaded_df == load_parquet(parquet_path)
      labelled == [i \in 1..Len(loaded_df.rows) |->
                     [label |-> i, ticker |-> loaded_df.rows[i].ticker,
                      timestamp |-> loaded_df.rows[i].timestamp,
                      close |-> loaded_df.rows[i].close]]
      df == SortRows(labelled, Comparing(labelled, TickerTimestampAsc), "stable")
      returns == [j \in 1..Len(df) |->
                    IF j = 1 THEN NaN ELSE PctChange(df[j - 1].close, df[j].close)]
      volatility == RollingStd(returns, window)
  IN IF loaded_df.err # "none" THEN loaded_df
     ELSE Ok([i \in 1..Len(df) |->
                [ticker |-> df[i].ticker, timestamp |-> df[i].timestamp,
                 close |-> df[i].close, returns |-> returns[i],
                 volatility_5d |-> volatility[i]]])

\* task2_rolling_volatility: the whole dataset sorted by ticker and
\* timestamp; per ticker group the change of close from the row before and
\* the rolling deviation of these changes, each series carrying the index
\* labels of its rows, by which the assignment to the frame's columns aligns
task2_rolling_volatility(parquet_path, window) ==
  LET loaded_df == load_parquet(parquet_path)
      labelled == [i \in 1..Len(loaded_df.rows) |->
                     [label |-> i, ticker |-> loaded_df.rows[i].ticker,
                      timestamp |-> loaded_df.rows[i].timestamp,
                      close |-> loaded_df.rows[i].close]]
      df == SortRows(labelled, Comparing(labelled, TickerTimestampAsc), "stable")
      group(s) == SelectSeq(df, LAMBDA r : r.ticker = s)
      returns(s) == [j \in 1..Len(group(s)) |->
                       IF j = 1 THEN NaN
                       ELSE PctChange(group(s)[j - 1].close, group(s)[j].close)]
      volatility(s) == RollingStd(returns(s), window)
      at(r) == CHOOSE j \in 1..Len(group(r.ticker)) : group(r.ticker)[j].label = r.label
  IN IF loaded_df.err # "none" THEN loaded_df
     ELSE Ok([i \in 1..Len(df) |->
                [ticker |-> df[i].ticker, timestamp |-> df[i].timestamp,
                 close |-> df[i].close,
                 returns |-> returns(df[i].ticker)[at(df[i])],
                 volatility_5d |-> volatility(df[i].ticker)[at(df[i])]]])

\* os.path.getsize(DB_NAME), or 0 without the file.  Sizes are counted in
\* rows rather than bytes: a file that sqlite3.connect has just created is
\* empty, one with a table is not.
DbFileSize(exists) ==
  IF ~exists \/ (schema.tickers = "none" /\ schema.prices = "none") THEN 0
  ELSE 1 + Len(tickers) + Len(prices)

\* get_parquet_size: 0 without the directory, otherwise the sizes of the
\* files under it, none of which is empty
get_parquet_size(parquet_path) ==
  IF ~parquet_path.exists THEN 0
  ELSE LET dirs == SymbolsAscending(DOMAIN parquet_path.parts)
       IN SumOf([g \in 1..Len(dirs) |-> 1 + Len(parquet_path.parts[dirs[g]])])

\* task3_benchmark_comparison, the comparison of lines 255 to 276: the
\* ratios as floats, and of each label its text and the number formatted
\* into it
Comparison(sqlite_time, parquet_time, sqlite_size, parquet_size) ==
  LET times ==
        IF parquet_time > 0
        THEN IF parquet_time < sqlite_time
             THEN [err |-> "none", time_ratio |-> Fraction(sqlite_time, parquet_time),
                   speedup |-> [text |-> "x faster",
                                value |-> Fraction(sqlite_time, parquet_time)]]
             ELSE IF sqlite_time = 0
             THEN [err |-> "ZeroDivisionError", time_ratio |-> NaN,
                   speedup |-> [text |-> "none", value |-> NaN]]
             ELSE [err |-> "none", time_ratio |-> Fraction(sqlite_time, parquet_time),
                   speedup |-> [text |-> "x slower",
                                value |-> Fraction(parquet_time, sqlite_time)]]
        ELSE [err |-> "none", time_ratio |-> Infinity,
              speedup |-> [text |-> "N/A", value |-> NaN]]
      sizes ==
        IF parquet_size > 0
        THEN [size_ratio |-> Fraction(sqlite_size, parquet_size),
              size_difference |->
                [text |-> "%",
                 value |-> Fraction((sqlite_size - parquet_size) * 100, parquet_size)]]
        ELSE [size_ratio |-> Fraction(0, 1),
              size_difference |-> [text |-> "N/A", value |-> NaN]]
  IN [err |-> times.err, time_ratio |-> times.time_ratio, speedup |-> times.speedup,
      size_ratio |-> sizes.size_ratio, size_difference |-> sizes.size_difference]

\* task3_benchmark_comparison with the two durations the clock measured:
\* the error that escapes or the results, and whether the connection it
\* opened is left open.  conn.close() follows the relational query and is
\* not reached when that query raises.
task3_benchmark_comparison(parquet_path, ticker, start_date, end_date, sqlite_time, parquet_time) ==
  LET sqlite_df == get_ticker_data(ticker, start_date, end_date)
      parquet_df == get_ticker_data_parquet(parquet_path, ticker, start_date, end_date)
      sqlite_size == DbFileSize(TRUE)
      parquet_size == get_parquet_size(parquet_path)
      comparison == Comparison(sqlite_time, parquet_time, sqlite_size, parquet_size)
  IN IF sqlite_df.err # "none" THEN [err |-> sqlite_df.err, rows |-> <<>>, open |-> TRUE]
     ELSE IF parquet_df.err # "none"
     THEN [err |-> parquet_df.err, rows |-> <<>>, open |-> FALSE]
     ELSE IF comparison.err # "none"
     THEN [err |-> comparison.err, rows |-> <<>>, open |-> FALSE]
     ELSE [err |-> "none", open |-> FALSE,
           rows |-> <<[sqlite |-> [query_time |-> sqlite_time,
                                   records |-> Len(sqlite_df.rows),
                                   file_size |-> sqlite_size],
                       parquet |-> [query_time |-> parquet_time,
                                    records |-> Len(parquet_df.rows),
                                    file_size |-> parquet_size],
                       comparison |-> [time_ratio |-> comparison.time_ratio,
                                       size_ratio |-> comparison.size_ratio,
                                       speedup |-> comparison.speedup,
                                       size_difference |-> comparison.size_difference]]>>]

\* --------------------------------------------------------------- the calls
QueryDates == {<<d>> : d \in 1..MaxDay}
Windows == 1..MaxWindow
Durations == 0..MaxDuration
TopNs == 1..MaxTopN
Limits == {<<>>} \cup {<<n>> : n \in 0..MaxLimit}

\* a query that reads its backend's data destructively
QueryDroppingData(backend, op, args, out) ==
  /\ pc = "ready" \/ (pc = "connect" /\ backend = "parquet")
  /\ calls > 0
  /\ calls' = calls - 1
  /\ result' = Returned(backend, op, args, out)
  /\ prices' = IF backend = "sqlite" THEN <<>> ELSE prices
  /\ parquet' = IF backend = "parquet" THEN NoDirectory ELSE parquet
  /\ UNCHANGED <<csvFile, refFile, build, pc, foreignKeys, schema, tickers,
                 loaded, dbFile, connections>>

\* The relational queries take the caller's connection and are issued once
\* the load sequence has run; the columnar ones take a path and may be
\* issued before anything is built as well.
Query(backend, op, args, out) ==
  /\ pc = "ready" \/ (pc = "connect" /\ backend = "parquet")
  /\ calls > 0
  /\ calls' = calls - 1
  /\ result' = Returned(backend, op, args, out)
  /\ UNCHANGED <<csvFile, refFile, build, pc, foreignKeys, schema, tickers,
                 prices, parquet, loaded, dbFile, connections>>

RangeSqlite ==
  \E ticker \in Symbols, start_date \in QueryDates, end_date \in QueryDates :
    Query("sqlite", "range", <<ticker, start_date, end_date>>,
          get_ticker_data(ticker, start_date, end_date))

VolumeSqlite ==
  Query("sqlite", "volume", <<>>, get_avg_daily_volume)

TopReturnsSqlite ==
  \E start_date \in QueryDates, end_date \in QueryDates, top_n \in TopNs :
    Query("sqlite", "top_returns", <<start_date, end_date, top_n>>,
          get_top_tickers_by_return(start_date, end_date, top_n))

DailySummarySqlite ==
  \E limit \in Limits :
    Query("sqlite", "daily_summary", <<limit>>, get_daily_trade_summary(limit))

RangeParquet ==
  \E ticker \in Symbols, start_date \in QueryDates, end_date \in QueryDates :
    Query("parquet", "range", <<ticker, start_date, end_date>>,
          get_ticker_data_parquet(parquet, ticker, start_date, end_date))

VolumeParquet ==
  Query("parquet", "volume", <<>>, get_avg_daily_volume_parquet(parquet))

TopReturnsParquet ==
  \E start_date \in QueryDates, end_date \in QueryDates, top_n \in TopNs :
    Query("parquet", "top_returns", <<start_date, end_date, top_n>>,
          get_top_tickers_by_return_parquet(parquet, start_date, end_date, top_n))

DailySummaryParquet ==
  \E limit \in Limits :
    Query("parquet", "daily_summary", <<limit>>,
          get_daily_trade_summary_parquet(parquet, limit))

RollingVolatilityParquet ==
  \E window \in Windows :
    Query("parquet", "rolling_volatility", <<window>>,
          task2_rolling_volatility(parquet, window))

RollingMeanParquet ==
  \E window \in Windows :
    Query("parquet", "rolling_mean", <<window>>, task1_aapl_rolling_average(parquet, window))

\* main, task3_benchmark_comparison(parquet_path): sqlite3.connect creates
\* market_data.db when it is missing, and time.time() measures each query
Benchmark ==
  \E ticker \in Symbols, sqlite_time \in Durations, parquet_time \in Durations :
    LET out == task3_benchmark_comparison(parquet, ticker, <<1>>, <<MaxDay>>,
                                          sqlite_time, parquet_time)
    IN /\ pc \in {"connect", "ready"}
       /\ calls > 0
       /\ calls' = calls - 1
       /\ dbFile' = TRUE
       /\ connections' = IF out.open THEN connections \cup {"task3_benchmark_comparison"}
                         ELSE connections
       /\ result' = [backend |-> "both", op |-> "benchmark",
                     args |-> <<ticker, <<1>>, <<MaxDay>>, sqlite_time, parquet_time>>,
                     err |-> out.err, rows |-> out.rows, dropped |-> 0]
       /\ UNCHANGED <<csvFile, refFile, build, pc, foreignKeys, schema, tickers,
                      prices, parquet, loaded>>

\* test_foreign_key_constraint: PRAGMA foreign_keys = ON, then INSERT INTO
\* prices a row with ticker_id 999.  The key is checked only by a prices table
\* that still declares it; its parent key must then be a PRIMARY KEY or
\* UNIQUE column of tickers, or the statement fails with a key mismatch.
insert_price ==
  /\ pc = "ready"
  /\ foreignKeys' = TRUE
  /\ LET row == [timestamp |-> FormatTimestamp(MinutesPerDay), ticker_id |-> OrphanTickerId,
                 open |-> 100, close |-> 110, volume |-> 10]
         err == IF schema.prices = "none" THEN "OperationalError"
                ELSE IF schema.prices = "pandas" THEN "none"
                ELSE IF schema.tickers # "ddl" THEN "OperationalError"
                ELSE IF \E k \in 1..Len(tickers) : tickers[k].ticker_id = row.ticker_id
                     THEN "none"
                ELSE "IntegrityError"
     IN /\ prices' = IF err = "none" THEN Append(prices, row) ELSE prices
        /\ result' = Reported("sqlite", "insert_price", err, 0)
  /\ pc' = "done"
  /\ UNCHANGED <<csvFile, refFile, build, schema, tickers, parquet, loaded, calls,
                 dbFile, connections>>

Next ==
  \/ connect
  \/ init_db
  \/ import_tickers
  \/ import_prices
  \/ close
  \/ init_parquet
  \/ RangeSqlite
  \/ VolumeSqlite
  \/ TopReturnsSqlite
  \/ DailySummarySqlite
  \/ RangeParquet
  \/ VolumeParquet
  \/ TopReturnsParquet
  \/ DailySummaryParquet
  \/ RollingMeanParquet
  \/ RollingVolatilityParquet
  \/ Benchmark
  \/ insert_price

Spec == Init /\ [][Next]_vars

\* ------------------------------------------------- the rolling statistics
\* The columnar program run on its own, on price files long enough for a
\* window to fill: the relational program has not run.
RollingCloses == {0, 10, 20, 30}

RollingCsvRows ==
  { [timestamp |-> FormatTimestamp(MinutesPerDay + m), ticker |-> s,
     open |-> c, close |-> c, volume |-> 10] :
    m \in 0..MaxRollingMinute, s \in Symbols, c \in RollingCloses }

RollingCsvFiles == UNION { [1..n -> RollingCsvRows] : n \in 1..MaxRollingBars }

InitRolling ==
  /\ csvFile \in RollingCsvFiles
  /\ refFile \in RefFiles
  /\ build \in [orderBy : {"stable"}, quicksort : TiePolicies]
  /\ pc = "init_parquet"
  /\ foreignKeys = FALSE
  /\ schema = [tickers |-> "none", prices |-> "none"]
  /\ tickers = <<>>
  /\ prices = <<>>
  /\ parquet = NoDirectory
  /\ loaded = [sqlite |-> "pending", parquet |-> "pending"]
  /\ calls = MaxCalls
  /\ result = NoResult
  /\ dbFile = FALSE
  /\ connections = {}

NextRolling ==
  \/ init_parquet
  \/ RollingMeanParquet
  \/ RollingVolatilityParquet

SpecRolling == InitRolling /\ [][NextRolling]_vars

\* ------------------------------------------------------- repeated reads
\* The two programs run on a price file with bars of both tickers in turn,
\* with a client that issues several calls.
ReadCsvFiles ==
  { f \in [1..MaxBars -> CsvRows] :
      \A i \in 1..MaxBars : f[i].ticker = (IF i % 2 = 1 THEN "AAPL" ELSE "TSLA") }

InitReads ==
  /\ csvFile \in ReadCsvFiles
  /\ refFile = RefRows
  /\ build \in [orderBy : TiePolicies, quicksort : TiePolicies]
  /\ pc = "connect"
  /\ foreignKeys = FALSE
  /\ schema = [tickers |-> "none", prices |-> "none"]
  /\ tickers = <<>>
  /\ prices = <<>>
  /\ parquet = NoDirectory
  /\ loaded = [sqlite |-> "pending", parquet |-> "pending"]
  /\ calls = MaxReads
  /\ result = NoResult
  /\ dbFile = FALSE
  /\ connections = {}

SpecReads == InitReads /\ [][Next]_vars

\* ------------------------------------------------------------- reloads
\* The relational load functions called again on the open connection, in
\* any order and on other input files, as the tests call them one by one.
ReloadCsvRows ==
  { [timestamp |-> FormatTimestamp(MinutesPerDay), ticker |-> s,
     open |-> q.open, close |-> q.close, volume |-> q.volume] :
    s \in Symbols, q \in Quotes }

ReloadCsvFiles == UNION { [1..n -> ReloadCsvRows] : n \in 1..MaxBars }

\* the caller replaces the input files and calls one of the three functions
Reload ==
  /\ pc \in {"init_db", "import_tickers", "import_prices", "close"}
  /\ calls > 0
  /\ calls' = calls - 1
  /\ csvFile' \in ReloadCsvFiles
  /\ refFile' \in RefFiles
  /\ pc' \in {"init_db", "import_tickers", "import_prices"}
  /\ UNCHANGED <<build, foreignKeys, schema, tickers, prices, parquet, loaded,
                 result, dbFile, connections>>

InitReload ==
  /\ csvFile \in ReloadCsvFiles
  /\ refFile \in RefFiles
  /\ build = [orderBy |-> "stable", quicksort |-> "stable"]
  /\ pc = "connect"
  /\ foreignKeys = FALSE
  /\ schema = [tickers |-> "none", prices |-> "none"]
  /\ tickers = <<>>
  /\ prices = <<>>
  /\ parquet = NoDirectory
  /\ loaded = [sqlite |-> "pending", parquet |-> "pending"]
  /\ calls = MaxReloads
  /\ result = NoResult
  /\ dbFile = FALSE
  /\ connections = {}

NextReload ==
  \/ connect
  \/ init_db
  \/ import_tickers
  \/ import_prices
  \/ close
  \/ Reload

SpecReload == InitReload /\ [][NextReload]_vars

\* ------------------------------------------------- data_loader on raw files
\* The loader alone, on files as they may arrive: a path with no file, a
\* file with no header, a header with a column missing or written in another
\* case, empty cells, timestamp text that is no date.  A file is its header
\* (the column names as written) and its rows; a row has a cell per
\* standard column, read only when the header has the column.
AbsentValue == [null |-> TRUE, value |-> 0]
Cell(v) == [null |-> FALSE, value |-> v]

\* a timestamp cell: empty, text that is no date, or a timestamp text
AbsentTimestamp == [null |-> TRUE, parses |-> FALSE, text |-> <<>>]
GarbageTimestamp == [null |-> FALSE, parses |-> FALSE, text |-> <<>>]
TimestampCell(t) == [null |-> FALSE, parses |-> TRUE, text |-> FormatTimestamp(t)]

price_cols == {"open", "high", "low", "close", "volume"}
expected_cols == {"timestamp", "ticker"} \cup price_cols

\* rows with at most one empty price or volume cell
LoaderRows ==
  { [timestamp |-> ts, ticker |-> s,
     open |-> IF e = "open" THEN AbsentValue ELSE Cell(100),
     high |-> IF e = "high" THEN AbsentValue ELSE Cell(120),
     low |-> IF e = "low" THEN AbsentValue ELSE Cell(90),
     close |-> IF e = "close" THEN AbsentValue ELSE Cell(110),
     volume |-> IF e = "volume" THEN AbsentValue ELSE Cell(10)] :
    ts \in {TimestampCell(MinutesPerDay), AbsentTimestamp, GarbageTimestamp},
    s \in Symbols, e \in price_cols \cup {"none"} }

\* str.lower().str.strip() of a column name as written
NormalizeColumn(name) ==
  CASE name = "Timestamp " -> "timestamp"
    [] name = " VOLUME" -> "volume"
    [] name = "Symbol" -> "symbol"
    [] OTHER -> name

\* the headers: the standard one, one written in another case and padded,
\* and the standard one with a column left out
LoaderHeaders ==
  {expected_cols, (expected_cols \ {"timestamp", "volume"}) \cup {"Timestamp ", " VOLUME"}}
    \cup {expected_cols \ {c} : c \in expected_cols}

NoFile == [exists |-> FALSE, columns |-> {}, rows |-> <<>>]
EmptyFile == [exists |-> TRUE, columns |-> {}, rows |-> <<>>]

MarketDataFiles ==
  {NoFile, EmptyFile} \cup
  [exists : {TRUE}, columns : LoaderHeaders,
   rows : UNION {[1..n -> LoaderRows] : n \in 0..MaxLoaderRows}]

\* the reference file has its columns in order: ticker_id, symbol; or
\* name, ticker_id, with no symbol column
RefLines ==
  <<[ticker_id |-> "1", symbol |-> "AAPL", name |-> "Apple Inc."],
    [ticker_id |-> "2", symbol |-> "TSLA", name |-> "Tesla Inc."]>>

TickersRefFiles ==
  {[exists |-> FALSE, columns |-> <<>>, rows |-> <<>>],
   [exists |-> TRUE, columns |-> <<>>, rows |-> <<>>]} \cup
  [exists : {TRUE},
   columns : {<<"ticker_id", "symbol">>, <<"ticker_id", "Symbol">>, <<"name", "ticker_id">>},
   rows : {<<>>, <<RefLines[1]>>, <<RefLines[2]>>, RefLines}]

\* what the loader does: the error that escapes and the failure its message
\* names, or the frame it returns (its columns, and its rows with the
\* timestamps parsed)
Loaded(columns, rows) ==
  [err |-> "none", message |-> "none", columns |-> columns, rows |-> rows]
Failed(err, message) ==
  [err |-> err, message |-> message, columns |-> {}, rows |-> <<>>]

\* pd.to_datetime(errors='coerce') of a timestamp cell: NaT for an empty
\* cell and for text that is no date
CoerceDatetime(cell) ==
  IF cell.null \/ ~cell.parses THEN AbsentValue ELSE Cell(ToDatetime(cell.text))

load_and_validate_data(market_data_path, tickers_ref_path) ==
  LET columns == {NormalizeColumn(c) : c \in market_data_path.columns}
      ref_columns == [i \in 1..Len(tickers_ref_path.columns) |->
                        NormalizeColumn(tickers_ref_path.columns[i])]
      rows == market_data_path.rows
      df == [i \in 1..Len(rows) |-> [rows[i] EXCEPT !.timestamp = CoerceDatetime(@)]]
      cols_to_check == {c \in price_cols : c \in columns}
      ref_ticker_col == IF \E i \in 1..Len(ref_columns) : ref_columns[i] = "symbol"
                        THEN "symbol" ELSE ref_columns[1]
      expected_tickers == {tickers_ref_path.rows[i][ref_ticker_col] :
                             i \in 1..Len(tickers_ref_path.rows)}
      actual_tickers == {df[i].ticker : i \in 1..Len(df)}
      missing_tickers == expected_tickers \ actual_tickers
  IN IF ~market_data_path.exists \/ ~tickers_ref_path.exists
     THEN Failed("FileNotFoundError", "file")
     ELSE IF market_data_path.columns = {} \/ tickers_ref_path.columns = <<>>
     THEN Failed("EmptyDataError", "none")
     ELSE IF "timestamp" \notin columns
     THEN Failed("KeyError", "timestamp")
     ELSE IF \E i \in 1..Len(df) : df[i].timestamp.null
     THEN Failed("ValueError", "timestamp")
     ELSE IF \E i \in 1..Len(df), c \in cols_to_check : df[i][c].null
     THEN Failed("ValueError", "price/volume")
     ELSE IF "ticker" \notin columns
     THEN Failed("KeyError", "ticker")
     ELSE IF missing_tickers # {}
     THEN Failed("ValueError", "missing tickers")
     ELSE Loaded(columns, df)

\* a call of the loader on the two files
LoadData ==
  /\ pc = "load"
  /\ LET out == load_and_validate_data(csvFile, refFile)
     IN result' = [backend |-> "loader", op |-> "load_and_validate_data", args |-> <<>>,
                   err |-> out.err, message |-> out.message,
                   columns |-> out.columns, rows |-> out.rows, dropped |-> 0]
  /\ pc' = "loaded"
  /\ UNCHANGED <<csvFile, refFile, build, foreignKeys, schema, tickers, prices,
                 parquet, loaded, calls, dbFile, connections>>

InitLoader ==
  /\ csvFile \in MarketDataFiles
  /\ refFile \in TickersRefFiles
  /\ build = [orderBy |-> "stable", quicksort |-> "stable"]
  /\ pc = "load"
  /\ foreignKeys = FALSE
  /\ schema = [tickers |-> "none", prices |-> "none"]
  /\ tickers = <<>>
  /\ prices = <<>>
  /\ parquet = NoDirectory
  /\ loaded = [sqlite |-> "pending", parquet |-> "pending"]
  /\ calls = 0
  /\ result = NoResult
  /\ dbFile = FALSE
  /\ connections = {}

NextLoader == LoadData

SpecLoader == InitLoader /\ [][NextLoader]_vars

\* ------------------------------------------------------------------ claims
QueryOps == {"range", "volume", "top_returns", "daily_summary"}

Count(seq, x) == Cardinality({i \in 1..Len(seq) : seq[i] = x})

\* the same rows, whatever their order
SameRows(a, b) ==
  /\ Len(a) = Len(b)
  /\ \A x \in Range(a) \cup Range(b) : Count(a, x) = Count(b, x)

\* a bar as the specification speaks of it: ticker, point in time, values
Bar(ticker, datetime, row) ==
  [ticker |-> ticker, timestamp |-> datetime,
   open |-> row.open, close |-> row.close, volume |-> row.volume]

\* the bars a backend holds, in stored order
StoredBars(backend) ==
  IF backend = "sqlite"
  THEN Flatten([i \in 1..Len(prices) |->
         Flatten([k \in 1..Len(tickers) |->
           IF prices[i].ticker_id = tickers[k].ticker_id
           THEN <<Bar(tickers[k].symbol, ToDatetime(prices[i].timestamp), prices[i])>>
           ELSE <<>>])])
  ELSE load_parquet(parquet).rows

StoredTickers(backend) ==
  IF backend = "sqlite" THEN {tickers[k].symbol : k \in 1..Len(tickers)}
  ELSE DOMAIN parquet.parts

\* the bars of the price file, and those whose ticker the reference file lists
InputBars ==
  [i \in 1..Len(csvFile) |->
     Bar(csvFile[i].ticker, ToDatetime(csvFile[i].timestamp), csvFile[i])]
ReferenceSymbols == {refFile[k].symbol : k \in 1..Len(refFile)}
AdmittedBars == SelectSeq(InputBars, LAMBDA b : b.ticker \in ReferenceSymbols)
OrphanBars == SelectSeq(InputBars, LAMBDA b : b.ticker \notin ReferenceSymbols)

\* the stored bars of a ticker inside [start, end], bounds read as datetimes
BarsInPeriod(backend, ticker, start_date, end_date) ==
  SelectSeq(StoredBars(backend), LAMBDA b :
    /\ b.ticker = ticker
    /\ b.timestamp >= ToDatetime(start_date)
    /\ b.timestamp <= ToDatetime(end_date))

\* the answer of a backend to a call
Answer(backend, op, args) ==
  CASE backend = "sqlite" /\ op = "range" -> get_ticker_data(args[1], args[2], args[3])
    [] backend = "sqlite" /\ op = "volume" -> get_avg_daily_volume
    [] backend = "sqlite" /\ op = "top_returns" -> get_top_tickers_by_return(args[1], args[2], args[3])
    [] backend = "sqlite" /\ op = "daily_summary" -> get_daily_trade_summary(args[1])
    [] backend = "parquet" /\ op = "range" -> get_ticker_data_parquet(parquet, args[1], args[2], args[3])
    [] backend = "parquet" /\ op = "volume" -> get_avg_daily_volume_parquet(parquet)
    [] backend = "parquet" /\ op = "top_returns" -> get_top_tickers_by_return_parquet(parquet, args[1], args[2], args[3])
    [] backend = "parquet" /\ op = "daily_summary" -> get_daily_trade_summary_parquet(parquet, args[1])
    [] backend = "parquet" /\ op = "rolling_mean" -> task1_aapl_rolling_average(parquet, args[1])
    [] backend = "parquet" /\ op = "rolling_volatility" -> task2_rolling_volatility(parquet, args[1])
    [] backend = "both" /\ op = "benchmark" ->
         task3_benchmark_comparison(parquet, args[1], args[2], args[3], args[4], args[5])

\* the rows of an answer in a form both backends share: the relational
\* backend names the ticker column symbol and returns timestamps as text
Canonical(backend, op, rows) ==
  IF backend = "sqlite" /\ op = "range"
  THEN [i \in 1..Len(rows) |-> Bar(rows[i].symbol, ToDatetime(rows[i].timestamp), rows[i])]
  ELSE IF backend = "sqlite" /\ op = "daily_summary"
  THEN [i \in 1..Len(rows) |-> [rows[i] EXCEPT !.timestamp = DateOf(ToDatetime(rows[i].timestamp))]]
  ELSE rows

OtherBackend(backend) == IF backend = "sqlite" THEN "parquet" ELSE "sqlite"

BothLoaded == loaded.sqlite = "ok" /\ loaded.parquet = "ok"

\* the last operation was the query op on a backend whose bulk load succeeded
Answered(op) ==
  /\ result.op = op
  /\ result.backend \in {"sqlite", "parquet"}
  /\ loaded[result.backend] = "ok"

\* C1: with the same bar set loaded into both backends, each of the four
\* queries returns from one backend what the other backend returns for the
\* same parameters: both fail or both succeed with the same rows in the
\* same order.
C1_CrossBackendEquivalence ==
  (BothLoaded /\ result.op \in QueryOps) =>
    LET other == Answer(OtherBackend(result.backend), result.op, result.args)
    IN /\ (result.err = "none") = (other.err = "none")
       /\ Canonical(result.backend, result.op, result.rows)
            = Canonical(OtherBackend(result.backend), result.op, other.rows)

\* C2: range(ticker, start, end) returns exactly the stored bars of the
\* requested ticker whose timestamp lies in [start, end], both bounds
\* included, in ascending timestamp order, and every returned bar carries
\* the requested ticker, on either backend and on either read path.
C2_RangeReturnsTickerBarsInPeriod ==
  (Answered("range") /\ result.err = "none") =>
    LET rows == Canonical(result.backend, "range", result.rows)
        expected == BarsInPeriod(result.backend, result.args[1], result.args[2], result.args[3])
    IN /\ SameRows(rows, expected)
       /\ \A i \in 1..(Len(rows) - 1) : rows[i].timestamp <= rows[i + 1].timestamp
       /\ \A i \in 1..Len(rows) : rows[i].ticker = result.args[1]

\* C3: range fails with an error when the ticker is not among the stored
\* tickers, and returns an empty sequence without error when the ticker is
\* stored but has no bar in [start, end].
C3_RangeUnknownTickerNotFound ==
  Answered("range") =>
    LET known == result.args[1] \in StoredTickers(result.backend)
        expected == BarsInPeriod(result.backend, result.args[1], result.args[2], result.args[3])
    IN /\ ~known => result.err # "none"
       /\ (known /\ expected = <<>>) => (result.err = "none" /\ result.rows = <<>>)

\* the mean volume of a stored ticker, truncated toward zero
MeanVolume(backend, ticker) ==
  LET own == SelectSeq(StoredBars(backend), LAMBDA b : b.ticker = ticker)
  IN Truncate(SumOf([i \in 1..Len(own) |-> own[i].volume]), Len(own))

\* C4: averageDailyVolume returns one entry per stored ticker, its value the
\* truncated mean of the ticker's volumes, ordered by value descending, and
\* two tickers with equal value are ordered by symbol ascending.
C4_AverageVolumeOrderedWithTieBreak ==
  Answered("volume") =>
    LET rows == result.rows
        held == {b.ticker : b \in Range(StoredBars(result.backend))}
    IN /\ result.err = "none"
       /\ Len(rows) = Cardinality(held)
       /\ {rows[i].symbol : i \in 1..Len(rows)} = held
       /\ \A i \in 1..Len(rows) :
            rows[i].avg_daily_volume = MeanVolume(result.backend, rows[i].symbol)
       /\ \A i, j \in 1..Len(rows) :
            i < j => \/ rows[i].avg_daily_volume > rows[j].avg_daily_volume
                     \/ /\ rows[i].avg_daily_volume = rows[j].avg_daily_volume
                        /\ SymbolRank(rows[i].symbol) < SymbolRank(rows[j].symbol)

\* of a non-empty sequence of bars: those at its earliest and at its latest timestamp
Earliest(bars) ==
  SelectSeq(bars, LAMBDA b : \A i \in 1..Len(bars) : b.timestamp <= bars[i].timestamp)
Latest(bars) ==
  SelectSeq(bars, LAMBDA b : \A i \in 1..Len(bars) : b.timestamp >= bars[i].timestamp)

\* C5: topReturns(start, end, n) yields at most one entry per ticker and at
\* most n entries, sorted by returnPct descending; the entry of a ticker is
\* (lastClose - firstOpen) / firstOpen * 100 rounded to 2 decimals, firstOpen
\* the open of its earliest and lastClose the close of its latest bar in
\* [start, end], bars of one timestamp being told apart by input order.
C5_TopReturnsOneEntryPerTicker ==
  (Answered("top_returns") /\ result.err = "none") =>
    LET rows == result.rows
        Period(s) == BarsInPeriod(result.backend, s, result.args[1], result.args[2])
        firstOpen(s) == Earliest(Period(s))[1].open
        lastClose(s) == Latest(Period(s))[Len(Latest(Period(s)))].close
    IN /\ Len(rows) <= result.args[3]
       /\ \A i, j \in 1..Len(rows) : i # j => rows[i].symbol # rows[j].symbol
       /\ \A i, j \in 1..Len(rows) :
            (i < j /\ ~rows[i].null /\ ~rows[j].null) => rows[i].return_pct >= rows[j].return_pct
       /\ \A i \in 1..Len(rows) :
            (~rows[i].null /\ firstOpen(rows[i].symbol) > 0) =>
              rows[i].return_pct \in
                { RoundHalfAway((lastClose(rows[i].symbol) - firstOpen(rows[i].symbol)) * 10000,
                                firstOpen(rows[i].symbol)),
                  RoundHalfEven((lastClose(rows[i].symbol) - firstOpen(rows[i].symbol)) * 10000,
                                firstOpen(rows[i].symbol)) }

\* C6: a ticker whose earliest bar in [start, end] has open <= 0 does not
\* appear in the result of topReturns, neither with a value nor with null.
C6_TopReturnsExcludesNonPositiveOpen ==
  (Answered("top_returns") /\ result.err = "none") =>
    \A i \in 1..Len(result.rows) :
      LET period == BarsInPeriod(result.backend, result.rows[i].symbol,
                                 result.args[1], result.args[2])
      IN \E b \in Range(Earliest(period)) : b.open > 0

\* C7: dailySummary returns exactly one row for each (ticker, calendar date)
\* with a stored bar, firstTradePrice the open of an earliest bar of that
\* day and lastTradePrice the close of a latest one, for any number of bars
\* per day, bars of one timestamp included.
C7_DailySummaryOneRowPerTickerDay ==
  (Answered("daily_summary") /\ result.args[1] = <<>>) =>
    LET rows == Canonical(result.backend, "daily_summary", result.rows)
        bars == StoredBars(result.backend)
        days == {<<b.ticker, DateOf(b.timestamp)>> : b \in Range(bars)}
        Day(s, d) == SelectSeq(bars, LAMBDA b : b.ticker = s /\ DateOf(b.timestamp) = d)
    IN /\ result.err = "none"
       /\ Len(rows) = Cardinality(days)
       /\ {<<rows[i].symbol, rows[i].timestamp>> : i \in 1..Len(rows)} = days
       /\ \A i \in 1..Len(rows) :
            /\ rows[i].first_trade_price \in
                 {b.open : b \in Range(Earliest(Day(rows[i].symbol, rows[i].timestamp)))}
            /\ rows[i].last_trade_price \in
                 {b.close : b \in Range(Latest(Day(rows[i].symbol, rows[i].timestamp)))}

\* C8: dailySummary rows are ordered by date descending, then symbol
\* ascending; with a limit the result is the first limit rows of that
\* ordering, never more than limit rows, for every limit >= 0; without a
\* limit all rows are returned.
C8_DailySummaryOrderedAndLimited ==
  (Answered("daily_summary") /\ result.err = "none") =>
    LET limit == result.args[1]
        rows == Canonical(result.backend, "daily_summary", result.rows)
        all == Canonical(result.backend, "daily_summary",
                         Answer(result.backend, "daily_summary", <<<<>>>>).rows)
    IN /\ \A i, j \in 1..Len(rows) :
            i < j => \/ rows[i].timestamp > rows[j].timestamp
                     \/ /\ rows[i].timestamp = rows[j].timestamp
                        /\ SymbolRank(rows[i].symbol) <= SymbolRank(rows[j].symbol)
       /\ limit = <<>> => rows = all
       /\ limit # <<>> => (Len(rows) <= limit[1] /\ rows = Take(all, limit[1]))

\* C9: after a bulk load into either backend the stored bars are exactly the
\* input bars whose ticker is in the reference ticker set, each stored once,
\* and the number of rows reported dropped is the number of orphan bars.
C9_LoadStoresExactlyReferencedBars ==
  /\ loaded.sqlite = "ok" => SameRows(StoredBars("sqlite"), AdmittedBars)
  /\ loaded.parquet = "ok" => SameRows(StoredBars("parquet"), AdmittedBars)
  /\ (result.op = "import_prices" /\ loaded.sqlite = "ok") => result.dropped = Len(OrphanBars)

\* C10: after init_db, import_tickers and import_prices, an insert into
\* prices of a row whose ticker_id matches no row of tickers is rejected
\* with an integrity error and leaves the prices table unchanged.
C10_OrphanInsertRejectedAfterLoad ==
  (result.op = "insert_price" /\ loaded.sqlite = "ok") =>
    /\ result.err = "IntegrityError"
    /\ \A i \in 1..Len(prices) : prices[i].ticker_id # OrphanTickerId

\* C11: a call of init_parquet on a location that exists as a directory
\* leaves the directory and everything under it as it was and reads no
\* input file, whatever the input files contain.
C11_InitParquetOnExistingDirectoryIsNoOp ==
  [][ (init_parquet /\ parquet.exists) =>
        /\ parquet' = parquet
        /\ \A csv \in [1..1 -> CsvRows], ref \in RefFiles :
             LET out == init_parquet_at(parquet, csv, ref)
             IN out.dir = parquet /\ out.read = {} /\ out.err = "none" ]_vars

\* init_parquet has been called on a directory that existed
C11_Witness ==
  /\ result.op = "init_parquet"
  /\ result.args = <<"already exists">>
  /\ parquet.exists

\* the partitions a ticker's directory may hold in place of the one it has:
\* any single bar
OtherContents ==
  { <<[timestamp |-> t, open |-> q.open, close |-> q.close, volume |-> q.volume]>> :
      t \in Datetimes, q \in Quotes }

\* the stores that agree with dir on the partition of ticker and differ from
\* it at most in the partitions of the other tickers, each of them absent,
\* unreadable, as in dir, or holding other bars
StoresAgreeingOn(dir, ticker) ==
  LET own == DOMAIN dir.parts \cap {ticker}
      others == Symbols \ {ticker}
      contents(o) == OtherContents \cup {dir.parts[x] : x \in DOMAIN dir.parts \cap {o}}
  IN UNION { UNION { { [exists |-> TRUE,
                        parts |-> [x \in own \cup present |->
                                     IF x = ticker THEN dir.parts[x] ELSE held[x]],
                        corrupt |-> (dir.corrupt \cap own) \cup bad] :
                       held \in [present -> UNION {contents(o) : o \in present}] } :
                     bad \in SUBSET present } :
             present \in SUBSET others }

\* C12: the result of a columnar range query for ticker X is the same on
\* every store that agrees on X's partition, whatever the partitions of
\* the other tickers hold and whether they are absent or unreadable, and
\* no bar of another ticker is in it.
C12_RangeIndependentOfOtherPartitions ==
  (result.backend = "parquet" /\ result.op = "range" /\ parquet.exists) =>
    /\ \A i \in 1..Len(result.rows) : result.rows[i].ticker = result.args[1]
    /\ \A alt \in StoresAgreeingOn(parquet, result.args[1]) :
         LET other == get_ticker_data_parquet(alt, result.args[1], result.args[2],
                                              result.args[3])
         IN other.err = result.err /\ other.rows = result.rows

\* C13: task1_aapl_rolling_average returns the stored bars of the ticker in
\* timestamp order and, at every position i, the mean of the trailing
\* min(w, i+1) close values; no position is null; closes [10, 20, 30] with
\* window 5 give [10, 15, 20].
C13_RollingMeanOfTrailingWindow ==
  /\ RollingMean(<<10, 20, 30>>, 5) = <<Fraction(10, 1), Fraction(15, 1), Fraction(20, 1)>>
  /\ Answered("rolling_mean") =>
       LET rows == result.rows
           w == result.args[1]
           own == SelectSeq(StoredBars("parquet"), LAMBDA b : b.ticker = "AAPL")
       IN /\ result.err = "none"
          /\ SameRows([i \in 1..Len(rows) |->
                         [ticker |-> rows[i].ticker, timestamp |-> rows[i].timestamp,
                          close |-> rows[i].close]],
                      [i \in 1..Len(own) |->
                         [ticker |-> own[i].ticker, timestamp |-> own[i].timestamp,
                          close |-> own[i].close]])
          /\ \A i \in 1..(Len(rows) - 1) : rows[i].timestamp <= rows[i + 1].timestamp
          /\ \A i \in 1..Len(rows) :
               LET k == Min(w, i)
                   total == SumOf([j \in 1..k |-> rows[i - k + j].close])
               IN /\ ~rows[i].close_5min_ma.null
                  /\ rows[i].close_5min_ma.num * k = total * rows[i].close_5min_ma.den

\* a rolling mean has been computed over more bars than the window holds
C13_Witness ==
  /\ Answered("rolling_mean")
  /\ result.err = "none"
  /\ Len(result.rows) > result.args[1]
  /\ result.rows[1].close # result.rows[2].close

\* a return that is a number: neither missing nor the quotient by a zero close
DefinedReturn(x) == ~x.null /\ ~x.inf

\* C14: in task2_rolling_volatility the first bar of every ticker group has
\* a null return and a null volatility, and the volatility of a bar is null
\* exactly when the trailing window of its group holds fewer than 2 defined
\* returns; the second bar of every group is therefore null too.
C14_VolatilityNullBelowTwoReturns ==
  (Answered("rolling_volatility") /\ result.err = "none") =>
    LET rows == result.rows
        w == result.args[1]
        group(i) == {j \in 1..i : rows[j].ticker = rows[i].ticker}
        trailing(i) == {j \in group(i) : Cardinality({k \in group(i) : k >= j}) <= w}
        defined(i) == Cardinality({j \in trailing(i) : DefinedReturn(rows[j].returns)})
    IN \A i \in 1..Len(rows) :
         /\ Cardinality(group(i)) = 1 =>
              (rows[i].returns.null /\ rows[i].volatility_5d.null)
         /\ Cardinality(group(i)) = 2 => rows[i].volatility_5d.null
         /\ rows[i].volatility_5d.null <=> defined(i) < 2
         /\ ~rows[i].volatility_5d.inf

\* a volatility has been computed from two returns, and a later bar of a
\* group has none
C14_Witness ==
  /\ Answered("rolling_volatility")
  /\ result.err = "none"
  /\ \E i \in 1..Len(result.rows) : ~result.rows[i].volatility_5d.null
  /\ \E i \in 2..Len(result.rows) :
       /\ result.rows[i].ticker = result.rows[i - 1].ticker
       /\ result.rows[i].volatility_5d.null

\* the permutations of 1..n
StorageOrders(n) == {f \in [1..n -> 1..n] : \A i, j \in 1..n : i # j => f[i] # f[j]}

\* dir with the rows of one partition stored in another order
Reordered(dir, ticker, f) ==
  [dir EXCEPT !.parts[ticker] = [i \in 1..Len(dir.parts[ticker]) |-> dir.parts[ticker][f[i]]]]

\* every value of a task2 output sits on the bar it was computed for: the
\* rows of a ticker are in timestamp order, the return of a row is the
\* change of close from the row of the same ticker before it, and its
\* volatility is the deviation of the defined returns of the window rows of
\* the same ticker that end at it
AttachedToOwnBars(rows, w) ==
  \A i \in 1..Len(rows) :
    LET group == {j \in 1..i : rows[j].ticker = rows[i].ticker}
        before == group \ {i}
        trailing == {j \in group : Cardinality({k \in group : k >= j}) <= w}
        observed == SelectSeq([j \in 1..i |-> rows[j]],
                              LAMBDA r : r.ticker = rows[i].ticker)
        window == SubSeq(observed, Len(observed) - Cardinality(trailing) + 1, Len(observed))
        defined == SelectSeq([k \in 1..Len(window) |-> window[k].returns], DefinedReturn)
    IN /\ \A j \in before : rows[j].timestamp <= rows[i].timestamp
       /\ before = {} => rows[i].returns.null
       /\ before # {} =>
            LET prev == rows[CHOOSE j \in before : \A k \in before : k <= j].close
            IN IF prev = 0
               THEN ~DefinedReturn(rows[i].returns)
               ELSE /\ DefinedReturn(rows[i].returns)
                    /\ rows[i].returns.num * prev = (rows[i].close - prev) * rows[i].returns.den
       /\ Len(defined) >= 2 => rows[i].volatility_5d = SampleVariance(defined)

\* C15: the return and the volatility task2_rolling_volatility attaches to a
\* bar of ticker A depend only on A's bars: they are the same on every
\* store that agrees on A's partition, a window never takes in a bar of
\* another ticker, and each value sits on the bar it was computed for,
\* whatever the order of the bars in storage.
C15_RollingPerTickerGroup ==
  (Answered("rolling_volatility") /\ result.err = "none") =>
    LET rows == result.rows
        w == result.args[1]
        Bars(out) == [i \in 1..Len(out) |->
                        [ticker |-> out[i].ticker, timestamp |-> out[i].timestamp,
                         close |-> out[i].close]]
        Of(out, s) == SelectSeq(out, LAMBDA r : r.ticker = s)
    IN /\ SameRows(Bars(rows), Bars(StoredBars("parquet")))
       /\ AttachedToOwnBars(rows, w)
       /\ \A s \in DOMAIN parquet.parts :
            /\ \A alt \in {d \in StoresAgreeingOn(parquet, s) : d.corrupt = {}} :
                 Of(task2_rolling_volatility(alt, w).rows, s) = Of(rows, s)
            /\ \A f \in StorageOrders(Len(parquet.parts[s])) :
                 LET other == task2_rolling_volatility(Reordered(parquet, s, f), w).rows
                 IN /\ SameRows(Bars(other), Bars(rows))
                    /\ AttachedToOwnBars(other, w)
                    /\ (\A i, j \in 1..Len(parquet.parts[s]) :
                          i # j => parquet.parts[s][i].timestamp # parquet.parts[s][j].timestamp)
                         => Of(other, s) = Of(rows, s)

\* volatilities have been computed for two tickers whose bars alternate in
\* the price file
C15_Witness ==
  /\ Answered("rolling_volatility")
  /\ result.err = "none"
  /\ Len(csvFile) >= 3
  /\ \E i \in 1..(Len(csvFile) - 2) :
       /\ csvFile[i].ticker # csvFile[i + 1].ticker
       /\ csvFile[i].ticker = csvFile[i + 2].ticker
       /\ csvFile[i].close # csvFile[i + 2].close
       /\ csvFile[i + 2].close # 0 /\ csvFile[i].close # 0
  /\ \E i \in 1..Len(result.rows) : DefinedReturn(result.rows[i].returns)

\* C16: when the columnar duration is zero the benchmark reports the time
\* ratio and the speed label as undefined / "N/A", and when the columnar
\* footprint is zero it reports the size ratio and the percentage size
\* difference as undefined / "N/A": no number stands for any of them.
C16_BenchmarkRatiosUndefinedOnZero ==
  (result.op = "benchmark" /\ result.err = "none") =>
    LET r == result.rows[1]
    IN /\ r.parquet.query_time = 0 =>
            /\ r.comparison.time_ratio.null
            /\ r.comparison.speedup.text = "N/A"
            /\ r.comparison.speedup.value.null
       /\ r.parquet.file_size = 0 =>
            /\ r.comparison.size_ratio.null
            /\ r.comparison.size_difference.text = "N/A"
            /\ r.comparison.size_difference.value.null

\* C17: the benchmark comparison raises no division error, whichever of the
\* two durations and the two sizes are zero: with both stores built it
\* returns a result.
C17_BenchmarkNeverDividesByZero ==
  result.op = "benchmark" =>
    /\ result.err # "ZeroDivisionError"
    /\ BothLoaded => result.err = "none"

\* C18: a query issued while its backend's storage location is missing (the
\* columnar root directory, the relational store file; the benchmark needs
\* both) ends in a not-found error, returns nothing and leaves the location
\* missing.
C18_QueryOnMissingStorageNotFound ==
  [][ (calls' = calls - 1) =>
        LET needsDirectory == result'.backend \in {"parquet", "both"}
            needsFile == result'.backend \in {"sqlite", "both"}
        IN ((needsDirectory /\ ~parquet.exists) \/ (needsFile /\ ~dbFile)) =>
             /\ result'.err = "FileNotFoundError"
             /\ result'.rows = <<>>
             /\ parquet'.exists = parquet.exists
             /\ dbFile' = dbFile ]_vars

\* C20: every connection a load or a benchmark run opens is closed when
\* that operation ends, whether it returned or raised: between operations
\* no connection is open.
C20_NoConnectionLeftOpen ==
  /\ pc \in {"connect", "init_parquet", "ready", "done"} => "main" \notin connections
  /\ "task3_benchmark_comparison" \notin connections

\* the backend a call reads has been built
Built(backend) ==
  CASE backend = "sqlite" -> loaded.sqlite = "ok"
    [] backend = "parquet" -> loaded.parquet = "ok"
    [] backend = "both" -> BothLoaded
    [] OTHER -> FALSE

\* the call being answered is the call answered last, with the same
\* parameters, the benchmark with the same two durations measured
IssuedAgain ==
  /\ result'.backend = result.backend
  /\ result'.op = result.op
  /\ result'.args = result.args

\* C19: a range, averageDailyVolume, topReturns, dailySummary, rolling or
\* benchmark call on a built backend, after any calls before it, leaves the
\* stored bars, tickers and files as they were, and the same call issued
\* again returns the same output.
C19_QueriesLeaveStateUnchanged ==
  [][ (calls' = calls - 1 /\ Built(result'.backend)) =>
        /\ tickers' = tickers
        /\ prices' = prices
        /\ schema' = schema
        /\ parquet' = parquet
        /\ dbFile' = dbFile
        /\ csvFile' = csvFile /\ refFile' = refFile
        /\ IssuedAgain => (result'.err = result.err /\ result'.rows = result.rows) ]_vars

\* a second call has been answered from built backends
C19_Witness ==
  /\ calls = 0
  /\ pc = "ready"
  /\ BothLoaded
  /\ result.op \in QueryOps \cup {"rolling_mean", "rolling_volatility", "benchmark"}
  /\ result.err = "none"
  /\ Len(result.rows) > 0

\* what the claim of the loader speaks of, read off the two files
BothFilesExist == csvFile.exists /\ refFile.exists

\* the columns the price file has, whatever the case they are written in
ColumnsPresent == {NormalizeColumn(c) : c \in csvFile.columns}

\* a row whose timestamp is not there or is no date
BadTimestamp(row) ==
  "timestamp" \notin ColumnsPresent \/ row.timestamp.null \/ ~row.timestamp.parses

\* a row with an open, high, low, close or volume value that is not there
MissingPriceOrVolume(row) ==
  \E c \in price_cols : c \notin ColumnsPresent \/ row[c].null

\* the symbols of the reference file
ReferenceTickers ==
  {refFile.rows[i][IF Len(refFile.columns) > 0 /\ NormalizeColumn(refFile.columns[1]) = "name"
                   THEN "name" ELSE "symbol"] : i \in 1..Len(refFile.rows)}

\* the tickers that occur in the price file
MarketTickers ==
  IF "ticker" \in ColumnsPresent
  THEN {csvFile.rows[i].ticker : i \in 1..Len(csvFile.rows)}
  ELSE {}

ValidInput ==
  /\ BothFilesExist
  /\ \A i \in 1..Len(csvFile.rows) :
       ~BadTimestamp(csvFile.rows[i]) /\ ~MissingPriceOrVolume(csvFile.rows[i])
  /\ ReferenceTickers \subseteq MarketTickers

\* C21: load_and_validate_data returns a frame only when both files exist,
\* every timestamp is present and parses, every open, high, low, close and
\* volume value is present and every ticker of the reference file occurs in
\* the price file; otherwise it returns nothing and raises FileNotFoundError
\* for a missing file, or ValueError naming a failure the input has: the
\* timestamps, the price/volume values or the missing tickers.
C21_LoaderReturnsOnlyValidData ==
  (pc = "loaded") =>
    /\ result.err = "none" => ValidInput
    /\ ~ValidInput =>
         /\ result.rows = <<>>
         /\ result.err \in {"FileNotFoundError", "ValueError"}
         /\ (result.err = "FileNotFoundError") = ~BothFilesExist
         /\ result.err = "ValueError" =>
              \/ /\ result.message = "timestamp"
                 /\ \E i \in 1..Len(csvFile.rows) : BadTimestamp(csvFile.rows[i])
              \/ /\ result.message = "price/volume"
                 /\ \E i \in 1..Len(csvFile.rows) : MissingPriceOrVolume(csvFile.rows[i])
              \/ /\ result.message = "missing tickers"
                 /\ ~(ReferenceTickers \subseteq MarketTickers)

\* C22: in the relational backend, after any sequence of init_db,
\* import_tickers and import_prices calls, reloads with another reference
\* file included, every row of prices has the ticker_id of a row of tickers.
C22_NoOrphanPriceRow ==
  \A i \in 1..Len(prices) :
    \E k \in 1..Len(tickers) : prices[i].ticker_id = tickers[k].ticker_id

\* the rows of the price file as import_prices would store them all
InputPrices == PricesToDb(LoadAndValidate(csvFile, <<>>).rows, get_symbol_map)

\* C23: a relational reload replaces and does not append: however many
\* times import_tickers and import_prices have run before, after
\* import_tickers table tickers holds the rows of the reference file, and
\* after import_prices on that reference file table prices holds no row but
\* those of the price file, and exactly those when the load succeeds (the
\* same input loaded twice leaves the rows it leaves when loaded once).
C23_ReloadReplaces ==
  [][ /\ (pc = "import_tickers" /\ pc' = "import_prices" /\ calls' = calls) =>
           tickers' = refFile
      /\ (pc = "import_prices" /\ pc' = "close" /\ calls' = calls /\ tickers = refFile) =>
           /\ Range(prices') \subseteq Range(InputPrices)
           /\ result'.err = "none" => prices' = InputPrices ]_vars

\* no stored ticker has a bar in [start, end] whose return is defined: it has
\* no bar there, or its earliest bars there have an open <= 0
NoTickerQualifies(backend, start_date, end_date) ==
  \A s \in Symbols :
    \A b \in Range(Earliest(BarsInPeriod(backend, s, start_date, end_date))) : b.open <= 0

\* C24: when no ticker qualifies for topReturns (no stored bar lies in
\* [start, end], or every ticker with a bar there has a first open <= 0),
\* the backend asked returns an empty result and raises no error.
C24_TopReturnsEmptyWithoutError ==
  (Answered("top_returns") /\ NoTickerQualifies(result.backend, result.args[1], result.args[2])) =>
    (result.err = "none" /\ result.rows = <<>>)

====
